---- MODULE Spec2Model ----
\* Model of sort_pages (components/content/src/sorting.rs): a data-parallel
\* partition of a batch of pages into sortable / unsortable, followed by a
\* parallel unstable sort of the sortable pages with the permalink as tie-break.
\*
\* Representation
\*   Option<T>      <<>> is None, <<v>> is Some(v)
\*   String / &str  a sequence of Unicode scalar values (UTF-8 byte order and
\*                  scalar-value order coincide, so str::cmp is the lexicographic
\*                  order of these sequences)
\*   PathBuf        a sequence of bytes (the paths used have one component, so
\*                  Path::cmp is the lexicographic order of the bytes)
\*   Ordering       "Less", "Equal", "Greater"; "Panic" stands for a comparison
\*                  that unwound (unwrap on None, unreachable!())
EXTENDS Integers, Sequences, FiniteSets

VARIABLES
    pages,            \* the borrowed input batch, &[&Page]
    sort_by,          \* the SortBy criterion of the call
    nworkers,         \* size of the thread pool running the parallel steps
    pc,               \* "partition", "sort", "done", or the way the call unwound
    acc,              \* partition: per worker, the two vectors folded so far
    can_be_sorted,    \* the vector being sorted in place
    cannot_be_sorted, \* the other half of the partition
    tasks,            \* sort: slices <<lo, hi>> spawned and not yet taken
    busy,             \* sort: slices a worker is currently partitioning
    sorted,           \* first component of the returned pair
    unsortable,       \* second component of the returned pair
    other             \* a second call of sort_pages in progress: its arguments and locals

vars == <<pages, sort_by, nworkers, pc, acc, can_be_sorted, cannot_be_sorted,
          tasks, busy, sorted, unsortable, other>>

\* ---------------------------------------------------------------- bounds
MaxPages == 4
MaxWorkers == 2

\* ---------------------------------------------------------------- values
None == <<>>
Some(v) == <<v>>
IsSome(o) == o # <<>>
Unwrap(o) == o[1]

SortByValues == {"Date", "UpdateDate", "Title", "TitleBytes", "Weight", "Path", "None"}

Page(path, datetime, updated, title, weight, permalink) ==
    [path |-> path, datetime |-> datetime, updated_datetime |-> updated,
     title |-> title, weight |-> weight, permalink |-> permalink]

IntCmp(x, y) == IF x < y THEN "Less" ELSE IF x > y THEN "Greater" ELSE "Equal"

\* Ord for str, String and (single-component) Path: lexicographic, a proper
\* prefix sorts first.
RECURSIVE StrCmp(_, _)
StrCmp(s, t) ==
    IF s = <<>> THEN (IF t = <<>> THEN "Equal" ELSE "Less")
    ELSE IF t = <<>> THEN "Greater"
    ELSE IF Head(s) < Head(t) THEN "Less"
    ELSE IF Head(s) > Head(t) THEN "Greater"
    ELSE StrCmp(Tail(s), Tail(t))

\* Ord for Option<T>: None is below every Some.
OptCmp(a, b) ==
    IF ~IsSome(a) THEN (IF IsSome(b) THEN "Less" ELSE "Equal")
    ELSE IF ~IsSome(b) THEN "Greater"
    ELSE IntCmp(Unwrap(a), Unwrap(b))

\* std::cmp::max(a, b): returns b unless a > b.
OptMax(a, b) == IF OptCmp(a, b) = "Greater" THEN a ELSE b

\* ------------------------------------------------ natural_lexical_cmp
IsDigit(c) == c >= 48 /\ c <= 57
IsAlnum(c) == IsDigit(c) \/ (c >= 97 /\ c <= 122) \/ (c >= 65 /\ c <= 90)

\* The ASCII, lower-case form under which characters are collated.
FoldChar(c) ==
    IF c >= 65 /\ c <= 90 THEN c + 32          \* A-Z -> a-z
    ELSE IF c >= 192 /\ c <= 197 THEN 97       \* A with diacritics -> a
    ELSE IF c >= 224 /\ c <= 229 THEN 97       \* a with diacritics -> a
    ELSE IF c >= 200 /\ c <= 203 THEN 101      \* E with diacritics -> e
    ELSE IF c >= 232 /\ c <= 235 THEN 101      \* e with diacritics -> e
    ELSE IF c \in {210, 211, 212, 213, 214} THEN 111   \* O with diacritics -> o
    ELSE IF c \in {242, 243, 244, 245, 246} THEN 111   \* o with diacritics -> o
    ELSE IF c = 956 THEN 109                   \* Greek mu -> m
    ELSE c

Fold(s) == [i \in 1..Len(s) |-> FoldChar(s[i])]

\* Length of the maximal digit run at the head of s.
RECURSIVE DigitRun(_)
DigitRun(s) == IF s # <<>> /\ IsDigit(Head(s)) THEN 1 + DigitRun(Tail(s)) ELSE 0

\* Numeric value of the first n characters of s (all digits).
RECURSIVE DigitValue(_, _)
DigitValue(s, n) == IF n = 0 THEN 0 ELSE DigitValue(s, n - 1) * 10 + (s[n] - 48)

\* Two collated characters that are not both digits.
CharCmp(c, d) ==
    IF IsAlnum(c) = IsAlnum(d) THEN IntCmp(c, d)
    ELSE IF IsAlnum(c) THEN "Greater" ELSE "Less"

\* Run-wise comparison of two collated strings: digit runs by value, other
\* characters one by one, the exhausted string first.
RECURSIVE RunCmp(_, _)
RunCmp(s, t) ==
    IF s = <<>> THEN (IF t = <<>> THEN "Equal" ELSE "Less")
    ELSE IF t = <<>> THEN "Greater"
    ELSE IF IsDigit(Head(s)) /\ IsDigit(Head(t)) THEN
        LET m == DigitRun(s)
            n == DigitRun(t)
            o == IntCmp(DigitValue(s, m), DigitValue(t, n))
        IN  IF o # "Equal" THEN o
            ELSE RunCmp(SubSeq(s, m + 1, Len(s)), SubSeq(t, n + 1, Len(t)))
    ELSE IF Head(s) = Head(t) THEN RunCmp(Tail(s), Tail(t))
    ELSE CharCmp(Head(s), Head(t))

\* natural_lexical_cmp: the run-wise comparison of the collated forms; strings
\* with the same collated form are told apart by the plain string order.
natural_lexical_cmp(s, t) ==
    LET o == RunCmp(Fold(s), Fold(t))
    IN  IF o # "Equal" THEN o ELSE StrCmp(s, t)

\* ------------------------------------------------------- Path::to_str
\* UTF-8 decoding of a byte string, one- and two-byte forms; None when the
\* bytes are not valid UTF-8.
RECURSIVE Utf8(_)
Utf8(b) ==
    IF b = <<>> THEN Some(<<>>)
    ELSE IF Head(b) < 128 THEN
        LET r == Utf8(Tail(b))
        IN  IF IsSome(r) THEN Some(<<Head(b)>> \o Unwrap(r)) ELSE None
    ELSE IF Head(b) >= 194 /\ Head(b) <= 223 /\ Len(b) >= 2
            /\ b[2] >= 128 /\ b[2] <= 191 THEN
        LET r == Utf8(SubSeq(b, 3, Len(b)))
        IN  IF IsSome(r)
            THEN Some(<<(Head(b) - 192) * 64 + (b[2] - 128)>> \o Unwrap(r))
            ELSE None
    ELSE None

to_str(path) == Utf8(path)

compare_by_path_first_only(a, b) ==
    IF IsSome(to_str(a))
    THEN Some(natural_lexical_cmp(Unwrap(to_str(a)), b))
    ELSE None

\* compare_by_path_lexically: None as soon as either path has no str form.
compare_by_path_lexically(a, b) ==
    IF IsSome(to_str(a)) /\ IsSome(to_str(b))
    THEN Some(natural_lexical_cmp(Unwrap(to_str(a)), Unwrap(to_str(b))))
    ELSE None

\* ------------------------------------------------ the partition closure
PredDateOrUpdated(page) == IsSome(page.datetime) \/ IsSome(page.updated_datetime)

PredDate(page) == IsSome(page.datetime)
PredUpdateDateBoth(page) == IsSome(page.datetime) /\ IsSome(page.updated_datetime)

PredUpdateDate(page) == IsSome(page.datetime) \/ IsSome(page.updated_datetime)
PredTitle(page) == IsSome(page.title)
PredWeight(page) == IsSome(page.weight)
PredPath(page) == TRUE

\* The closure given to partition, for a criterion other than SortBy::None.
CanBeSorted(page, sb) ==
    CASE sb = "Date" -> PredDate(page)
      [] sb = "UpdateDate" -> PredUpdateDate(page)
      [] sb \in {"Title", "TitleBytes"} -> PredTitle(page)
      [] sb = "Weight" -> PredWeight(page)
      [] sb = "Path" -> PredPath(page)

\* --------------------------------------------------- the sort closure
OrdDateAscending(a, b) ==
    IF IsSome(a.datetime) /\ IsSome(b.datetime)
    THEN IntCmp(Unwrap(a.datetime), Unwrap(b.datetime))
    ELSE "Panic"

OrdDate(a, b) ==
    IF IsSome(a.datetime) /\ IsSome(b.datetime)
    THEN IntCmp(Unwrap(b.datetime), Unwrap(a.datetime))
    ELSE "Panic"

OrdUpdateDateIgnoresUpdated(a, b) ==
    IF IsSome(a.datetime) /\ IsSome(b.datetime)
    THEN IntCmp(Unwrap(b.datetime), Unwrap(a.datetime))
    ELSE "Panic"

OrdUpdateDate(a, b) ==
    LET kb == OptMax(b.datetime, b.updated_datetime)
        ka == OptMax(a.datetime, a.updated_datetime)
    IN  IF IsSome(ka) /\ IsSome(kb) THEN IntCmp(Unwrap(kb), Unwrap(ka)) ELSE "Panic"

OrdTitleByBytes(a, b) ==
    IF IsSome(a.title) /\ IsSome(b.title)
    THEN StrCmp(Unwrap(a.title), Unwrap(b.title))
    ELSE "Panic"

OrdTitle(a, b) ==
    IF IsSome(a.title) /\ IsSome(b.title)
    THEN natural_lexical_cmp(Unwrap(a.title), Unwrap(b.title))
    ELSE "Panic"

OrdTitleBytesNatural(a, b) ==
    IF IsSome(a.title) /\ IsSome(b.title)
    THEN natural_lexical_cmp(Unwrap(a.title), Unwrap(b.title))
    ELSE "Panic"

OrdTitleBytes(a, b) ==
    IF IsSome(a.title) /\ IsSome(b.title)
    THEN StrCmp(Unwrap(a.title), Unwrap(b.title))
    ELSE "Panic"

OrdWeightDescending(a, b) ==
    IF IsSome(a.weight) /\ IsSome(b.weight)
    THEN IntCmp(Unwrap(b.weight), Unwrap(a.weight))
    ELSE "Panic"

OrdWeight(a, b) ==
    IF IsSome(a.weight) /\ IsSome(b.weight)
    THEN IntCmp(Unwrap(a.weight), Unwrap(b.weight))
    ELSE "Panic"

OrdPath(a, b) ==
    LET o == compare_by_path_lexically(a.path, b.path)
    IN  IF IsSome(o) THEN Unwrap(o) ELSE StrCmp(a.path, b.path)

\* let ord = match sort_by { ... }
KeyOrd(a, b, sb) ==
    CASE sb = "Date" -> OrdDate(a, b)
      [] sb = "UpdateDate" -> OrdUpdateDate(a, b)
      [] sb = "Title" -> OrdTitle(a, b)
      [] sb = "TitleBytes" -> OrdTitleBytes(a, b)
      [] sb = "Weight" -> OrdWeight(a, b)
      [] sb = "Path" -> OrdPath(a, b)
      [] sb = "None" -> "Panic"

TieBreakByPath(a, b) == StrCmp(a.path, b.path)

TieBreak(a, b) == StrCmp(a.permalink, b.permalink)

\* The whole closure given to par_sort_unstable_by.
Compare(a, b, sb) ==
    LET ord == KeyOrd(a, b, sb)
    IN  IF ord = "Equal" THEN TieBreak(a, b) ELSE ord

\* ------------------------------------------------------ input batches
\* The pages a batch is drawn from, per criterion.  Dates are years.  Every
\* universe holds pages with equal keys and pages without the key; path order,
\* permalink order and key order all differ.
\* create_page_with_date / create_page_with_weight
DatePages ==
    { Page(<<97>>, Some(2018), None, None, None, <<100>>),   \* 2018
     Page(<<98>>, Some(2017), Some(2022), None, None, <<98>>),   \* 2017, updated 2022
     Page(<<99>>, Some(2019), None, None, None, <<97>>),   \* 2019
     Page(<<100>>, None, Some(2018), None, None, <<101>>),   \* no date, updated 2018
     Page(<<101>>, Some(2018), Some(2017), None, None, <<99>>),   \* 2018, updated 2017
     Page(<<102>>, None, None, None, Some(1), <<102>>) }   \* only a weight

\* create_page_with_weight / create_page_with_title
WeightPages ==
    { Page(<<97>>, None, None, None, Some(2), <<99>>),   \* weight 2
     Page(<<98>>, None, None, None, Some(3), <<97>>),   \* weight 3
     Page(<<99>>, None, None, None, Some(1), <<100>>),   \* weight 1
     Page(<<100>>, None, None, None, Some(2), <<98>>),   \* weight 2 again
     Page(<<101>>, None, None, Some(<<98, 97, 103, 101, 108>>), None, <<101>>) }   \* only a title

\* create_page_with_title / create_page_with_date
TitlePages ==
    { Page(<<97>>, None, None, Some(<<116, 114, 97, 99, 107, 95, 51>>), None, <<99>>),   \* track_3
     Page(<<98>>, None, None, Some(<<116, 114, 97, 99, 107, 95, 49, 51>>), None, <<97>>),   \* track_13
     Page(<<99>>, None, None, Some(<<116, 114, 97, 99, 107, 95, 49>>), None, <<104>>),   \* track_1
     Page(<<100>>, None, None, Some(<<66, 65, 82, 84>>), None, <<101>>),   \* BART
     Page(<<101>>, None, None, Some(<<98, 97, 103, 101, 108>>), None, <<100>>),   \* bagel
     Page(<<102>>, None, None, Some(<<229, 108, 97, 110, 100>>), None, <<102>>),   \* a-ring land
     Page(<<103>>, None, None, Some(<<116, 114, 97, 99, 107, 95, 49>>), None, <<98>>),   \* track_1 again
     Page(<<104>>, Some(2018), None, None, None, <<103>>) }   \* only a date

\* paths; <<.., 255>> is not valid UTF-8, so to_str() is None
PathPages ==
    { Page(<<49>>, None, None, Some(<<49>>), None, <<99>>),   \* 1
     Page(<<49, 48>>, None, None, Some(<<49, 48>>), None, <<97>>),   \* 10
     Page(<<50>>, None, None, Some(<<50>>), None, <<100>>),   \* 2
     Page(<<49, 255>>, None, None, None, None, <<98>>),   \* 1 followed by byte 0xFF
     Page(<<97>>, None, None, None, Some(1), <<102>>),   \* a
     Page(<<66>>, None, None, None, None, <<101>>) }   \* B


Universe(sb) ==
    CASE sb \in {"Date", "UpdateDate"} -> DatePages
      [] sb \in {"Title", "TitleBytes"} -> TitlePages
      [] sb = "Weight" -> WeightPages
      [] sb = "Path" -> PathPages
      [] sb = "None" -> WeightPages

Injective(f, field) ==
    \A i, j \in DOMAIN f : i # j => f[i][field] # f[j][field]

\* Batches of at most MaxPages pages with unique identifiers (paths).
Batches(U) ==
    {b \in UNION {[1..n -> U] : n \in 0..MaxPages} : Injective(b, "path")}

\* ------------------------------------------------------------ partition
Min(x, y) == IF x < y THEN x ELSE y

\* pages.par_iter(): the slice is split into one contiguous chunk per worker.
NumChunks == IF Len(pages) = 0 THEN 0 ELSE Min(nworkers, Len(pages))
ChunkLoSkipsFirst(w) ==
    ((w - 1) * Len(pages)) \div NumChunks + (IF w > 1 THEN 2 ELSE 1)

ChunkLo(w) == ((w - 1) * Len(pages)) \div NumChunks + 1
ChunkHi(w) == (w * Len(pages)) \div NumChunks
Folded(w) == Len(acc[w].yes) + Len(acc[w].no)
ChunkDoneAtFirstRejected(w) ==
    ChunkLo(w) + Folded(w) > ChunkHi(w) \/ acc[w].no # <<>>

ChunkDone(w) == ChunkLo(w) + Folded(w) > ChunkHi(w)

\* The reduction of the per-worker vectors, in chunk order.
RECURSIVE Flatten(_, _, _)
Flatten(a, side, k) == IF k = 0 THEN <<>> ELSE Flatten(a, side, k - 1) \o a[k][side]

Paths(seq) == [i \in 1..Len(seq) |-> seq[i].path]

\* The two components of the returned pair.
SortedPaths(seq) == Paths(seq)

UnsortablePathsOfSorted(seq) == Paths(can_be_sorted)

UnsortablePaths(seq) == Paths(seq)

\* ----------------------------------------------------------------- sort
is_less(a, b, sb) == Compare(a, b, sb) = "Less"

UnwindsOnEqual(rest, pivot, sb) ==
    \E i \in 1..Len(rest) : Compare(rest[i], pivot, sb) \in {"Panic", "Equal"}

\* Some comparison against the pivot unwinds.
Unwinds(rest, pivot, sb) ==
    \E i \in 1..Len(rest) : Compare(rest[i], pivot, sb) = "Panic"

Swap(v, i, j) == [v EXCEPT ![i] = v[j], ![j] = v[i]]

\* choose_pivot for a short slice: index len / 4 * 2 (here 1-based).
ChoosePivot(len) == (len \div 4) * 2 + 1

\* partition(v, pivot): the pivot is swapped to the front, the rest is split
\* into the elements less than the pivot and the others, and the pivot is
\* swapped to the place between them.  Returns the slice and the pivot's place.
PartitionSlice(v, sb) ==
    LET w == Swap(v, 1, ChoosePivot(Len(v)))
        pivot == w[1]
        rest == Tail(w)
        l == SelectSeq(rest, LAMBDA x : is_less(x, pivot, sb))
        r == SelectSeq(rest, LAMBDA x : ~is_less(x, pivot, sb))
    IN  [v |-> Swap(<<pivot>> \o l, 1, Len(l) + 1) \o r, mid |-> Len(l) + 1]

\* The two recursive calls: slices of one element or none are not spawned.
Children(lo, hi, mid) ==
    {s \in {<<lo, mid - 1>>, <<mid + 1, hi>>} : s[2] > s[1]}

\* The sort run by a single worker, depth first.
RECURSIVE SortSeq(_, _)
SortSeq(v, sb) ==
    IF Len(v) < 2 THEN v
    ELSE LET p == PartitionSlice(v, sb)
         IN  SortSeq(SubSeq(p.v, 1, p.mid - 1), sb) \o <<p.v[p.mid]>>
                 \o SortSeq(SubSeq(p.v, p.mid + 1, Len(p.v)), sb)

\* ------------------------------------------------------ a second call
\* The arguments and locals of the call, as a record.
Context ==
    [pages |-> pages, sort_by |-> sort_by, pc |-> pc, acc |-> acc,
     can_be_sorted |-> can_be_sorted, cannot_be_sorted |-> cannot_be_sorted,
     tasks |-> tasks, busy |-> busy, sorted |-> sorted, unsortable |-> unsortable]

\* No second call is in progress.
NoCall ==
    [pages |-> <<>>, sort_by |-> "None", pc |-> "idle", acc |-> <<>>,
     can_be_sorted |-> <<>>, cannot_be_sorted |-> <<>>,
     tasks |-> {}, busy |-> {}, sorted |-> <<>>, unsortable |-> <<>>]

\* -------------------------------------------------------------- actions
Init ==
    /\ sort_by \in SortByValues
    /\ pages \in {b \in Batches(Universe(sort_by)) : Injective(b, "permalink")}
    /\ nworkers \in 1..MaxWorkers
    /\ pc = "partition"
    /\ acc = [w \in 1..NumChunks |-> [yes |-> <<>>, no |-> <<>>]]
    /\ can_be_sorted = <<>>
    /\ cannot_be_sorted = <<>>
    /\ tasks = {}
    /\ busy = {}
    /\ sorted = <<>>
    /\ unsortable = <<>>
    /\ other = NoCall

PartitionStepAcceptsNone(w) ==
    /\ pc = "partition"
    /\ ~ChunkDone(w)
    /\ LET page == pages[ChunkLo(w) + Folded(w)]
       IN  acc' = IF sort_by = "None" \/ CanBeSorted(page, sort_by)
                  THEN [acc EXCEPT ![w].yes = Append(@, page)]
                  ELSE [acc EXCEPT ![w].no = Append(@, page)]
    /\ UNCHANGED <<other, pages, sort_by, nworkers, pc, can_be_sorted, cannot_be_sorted,
                   tasks, busy, sorted, unsortable>>

\* One worker applies the closure to the next page of its chunk.
PartitionStep(w) ==
    /\ pc = "partition"
    /\ ~ChunkDone(w)
    /\ LET page == pages[ChunkLo(w) + Folded(w)]
       IN  IF sort_by = "None"
           THEN /\ pc' = "unreachable"
                /\ acc' = acc
           ELSE /\ pc' = pc
                /\ acc' = IF CanBeSorted(page, sort_by)
                          THEN [acc EXCEPT ![w].yes = Append(@, page)]
                          ELSE [acc EXCEPT ![w].no = Append(@, page)]
    /\ UNCHANGED <<other, pages, sort_by, nworkers, can_be_sorted, cannot_be_sorted,
                   tasks, busy, sorted, unsortable>>

PartitionReduceIndexesFirst ==
    /\ pc = "partition"
    /\ \A w \in 1..NumChunks : ChunkDone(w)
    /\ IF pages = <<>>
       THEN /\ pc' = "panic"
            /\ UNCHANGED <<can_be_sorted, cannot_be_sorted, tasks>>
       ELSE /\ can_be_sorted' = Flatten(acc, "yes", NumChunks)
            /\ cannot_be_sorted' = Flatten(acc, "no", NumChunks)
            /\ tasks' = IF Len(can_be_sorted') >= 2 THEN {<<1, Len(can_be_sorted')>>} ELSE {}
            /\ pc' = "sort"
    /\ UNCHANGED <<other, pages, sort_by, nworkers, acc, busy, sorted, unsortable>>

\* All chunks are folded: the two vectors are assembled and the sort starts.
PartitionReduce ==
    /\ pc = "partition"
    /\ \A w \in 1..NumChunks : ChunkDone(w)
    /\ can_be_sorted' = Flatten(acc, "yes", NumChunks)
    /\ cannot_be_sorted' = Flatten(acc, "no", NumChunks)
    /\ tasks' = IF Len(can_be_sorted') >= 2 THEN {<<1, Len(can_be_sorted')>>} ELSE {}
    /\ pc' = "sort"
    /\ UNCHANGED <<other, pages, sort_by, nworkers, acc, busy, sorted, unsortable>>

\* An idle worker takes a spawned slice.
SortTake(seg) ==
    /\ pc = "sort"
    /\ seg \in tasks
    /\ Cardinality(busy) < nworkers
    /\ tasks' = tasks \ {seg}
    /\ busy' = busy \cup {seg}
    /\ UNCHANGED <<other, pages, sort_by, nworkers, pc, acc, can_be_sorted,
                   cannot_be_sorted, sorted, unsortable>>

\* The worker partitions its slice around the pivot and spawns the two halves.
SortFinish(seg) ==
    /\ pc = "sort"
    /\ seg \in busy
    /\ LET lo == seg[1]
           hi == seg[2]
           v == SubSeq(can_be_sorted, lo, hi)
           w == Swap(v, 1, ChoosePivot(Len(v)))
           p == PartitionSlice(v, sort_by)
       IN  IF Unwinds(Tail(w), w[1], sort_by)
           THEN /\ pc' = "panic"
                /\ UNCHANGED <<can_be_sorted, tasks, busy>>
           ELSE /\ pc' = pc
                /\ can_be_sorted' =
                       SubSeq(can_be_sorted, 1, lo - 1) \o p.v
                           \o SubSeq(can_be_sorted, hi + 1, Len(can_be_sorted))
                /\ tasks' = tasks \cup Children(lo, hi, lo + p.mid - 1)
                /\ busy' = busy \ {seg}
    /\ UNCHANGED <<other, pages, sort_by, nworkers, acc, cannot_be_sorted, sorted,
                   unsortable>>

ReturnCached ==
    /\ pc = "sort"
    /\ tasks = {}
    /\ busy = {}
    /\ sorted' = IF other.pc = "done" THEN other.sorted ELSE SortedPaths(can_be_sorted)
    /\ unsortable' = UnsortablePaths(cannot_be_sorted)
    /\ pc' = "done"
    /\ UNCHANGED <<other, pages, sort_by, nworkers, acc, can_be_sorted,
                   cannot_be_sorted, tasks, busy>>

\* The sort has joined: the paths of both vectors are cloned and returned.
Return ==
    /\ pc = "sort"
    /\ tasks = {}
    /\ busy = {}
    /\ sorted' = SortedPaths(can_be_sorted)
    /\ unsortable' = UnsortablePaths(cannot_be_sorted)
    /\ pc' = "done"
    /\ UNCHANGED <<other, pages, sort_by, nworkers, acc, can_be_sorted,
                   cannot_be_sorted, tasks, busy>>

Next ==
    \/ \E w \in 1..NumChunks : PartitionStep(w)
    \/ PartitionReduce
    \/ \E seg \in tasks : SortTake(seg)
    \/ \E seg \in busy : SortFinish(seg)
    \/ Return

Spec == Init /\ [][Next]_vars

\* ------------------------------------------- batches with equal permalinks
\* Nothing in sort_pages checks that permalinks differ.  A twin is another page
\* (another path) with the attributes and the permalink of a given page.
Twin(page) == [page EXCEPT !.path = <<122>> \o page.path]

DupCriteria == {"Date", "UpdateDate", "Title", "TitleBytes", "Weight"}

\* Two pages of the criterion's universe, the pages it rejects, and the twin
\* of one of the two.
DupUniverse(sb) ==
    LET U == Universe(sb)
    IN  {p \in U : p.path \in {<<97>>, <<98>>} \/ ~CanBeSorted(p, sb)}
            \cup {Twin(p) : p \in {q \in U : q.path = <<97>>}}

\* A call on a batch in which at least two pages share their permalink.
InitDup ==
    /\ sort_by \in DupCriteria
    /\ pages \in {b \in Batches(DupUniverse(sort_by)) : ~Injective(b, "permalink")}
    /\ nworkers \in 1..MaxWorkers
    /\ pc = "partition"
    /\ acc = [w \in 1..NumChunks |-> [yes |-> <<>>, no |-> <<>>]]
    /\ can_be_sorted = <<>>
    /\ cannot_be_sorted = <<>>
    /\ tasks = {}
    /\ busy = {}
    /\ sorted = <<>>
    /\ unsortable = <<>>
    /\ other = NoCall

\* The rayon pool runs a worker whenever there is work: a step that stays
\* possible is taken.
SpecDup == InitDup /\ [][Next]_vars /\ WF_vars(Next)

\* ------------------------------------------------- two calls at a time
\* Pages that two calls may both borrow: with a date and a weight, with only
\* a weight, with only a date.
PairPages ==
    { Page(<<97>>, Some(2018), None, None, Some(2), <<98>>),
      Page(<<98>>, None, None, None, Some(1), <<99>>),
      Page(<<99>>, Some(2019), None, None, Some(3), <<97>>) }

PairCriteria == {"Date", "Weight"}

\* The locals of a call at its entry.
Entry(batch, sb) ==
    [pages |-> batch, sort_by |-> sb, pc |-> "partition",
     acc |-> [w \in 1..Min(nworkers, Len(batch)) |-> [yes |-> <<>>, no |-> <<>>]],
     can_be_sorted |-> <<>>, cannot_be_sorted |-> <<>>,
     tasks |-> {}, busy |-> {}, sorted |-> <<>>, unsortable |-> <<>>]

\* Two calls are entered, each with its batch and its criterion; the batches
\* may share pages.
InitTwo ==
    /\ sort_by \in PairCriteria
    /\ pages \in Batches(PairPages)
    /\ nworkers \in 1..MaxWorkers
    /\ pc = "partition"
    /\ acc = [w \in 1..NumChunks |-> [yes |-> <<>>, no |-> <<>>]]
    /\ can_be_sorted = <<>>
    /\ cannot_be_sorted = <<>>
    /\ tasks = {}
    /\ busy = {}
    /\ sorted = <<>>
    /\ unsortable = <<>>
    /\ other \in {Entry(b, sb) : b \in Batches(PairPages), sb \in PairCriteria}

\* The threads turn to the other call: the next steps are steps of that call.
SwitchCall ==
    /\ other.pc # "idle"
    /\ other' = Context
    /\ pages' = other.pages
    /\ sort_by' = other.sort_by
    /\ pc' = other.pc
    /\ acc' = other.acc
    /\ can_be_sorted' = other.can_be_sorted
    /\ cannot_be_sorted' = other.cannot_be_sorted
    /\ tasks' = other.tasks
    /\ busy' = other.busy
    /\ sorted' = other.sorted
    /\ unsortable' = other.unsortable
    /\ nworkers' = nworkers

NextTwo ==
    \/ \E w \in 1..NumChunks : PartitionStep(w)
    \/ PartitionReduce
    \/ \E seg \in tasks : SortTake(seg)
    \/ \E seg \in busy : SortFinish(seg)
    \/ Return
    \/ SwitchCall

SpecTwo == InitTwo /\ [][NextTwo]_vars

\* ------------------------------------------------------------ properties
Range(seq) == {seq[i] : i \in DOMAIN seq}

\* The input page with a given identifier.
PageOf(path) == CHOOSE p \in Range(pages) : p.path = path

Returned == pc = "done" /\ sort_by # "None"

\* All orderings of a batch.
Permutations(seq) ==
    {[i \in DOMAIN seq |-> seq[f[i]]] :
        f \in {g \in [DOMAIN seq -> DOMAIN seq] : \A i, j \in DOMAIN seq : i # j => g[i] # g[j]}}

\* The pages the closure accepts, in input order.
Orderable(seq, sb) == SelectSeq(seq, LAMBDA page : CanBeSorted(page, sb))

\* C1: when sort_pages returns under a criterion other than NoOrder, the two
\* outputs together hold every input identifier exactly once: their lengths add
\* up to the input's, they share no identifier, and their union is the set of
\* input identifiers.
C1_PartitionComplete ==
    Returned =>
        /\ Len(sorted) + Len(unsortable) = Len(pages)
        /\ Range(sorted) \cap Range(unsortable) = {}
        /\ Range(sorted) \cup Range(unsortable) = Range(Paths(pages))

C1_Witness ==
    /\ Returned
    /\ nworkers >= 2
    /\ Len(sorted) >= 2
    /\ Len(unsortable) >= 1

\* The eligibility table of the claim.
NeededAttributePresent(page, sb) ==
    CASE sb = "Date" -> page.datetime # None
      [] sb = "UpdateDate" -> page.datetime # None \/ page.updated_datetime # None
      [] sb = "Title" -> page.title # None
      [] sb = "TitleBytes" -> page.title # None
      [] sb = "Weight" -> page.weight # None
      [] sb = "Path" -> TRUE

\* C2: a record is in the sorted output iff the attribute its criterion needs is
\* present, and in the unsortable output otherwise.
C2_Eligibility ==
    Returned =>
        \A i \in DOMAIN pages :
            /\ pages[i].path \in Range(sorted) <=> NeededAttributePresent(pages[i], sort_by)
            /\ pages[i].path \in Range(unsortable) <=> ~NeededAttributePresent(pages[i], sort_by)

\* By date, a dated page is in the sorted output and a page with only a weight
\* is in the unsortable output.
C2_Witness ==
    /\ pc = "done"
    /\ sort_by = "Date"
    /\ \E i, j \in DOMAIN pages :
        /\ pages[i].datetime # None /\ pages[i].path \in Range(sorted)
        /\ pages[j].datetime = None /\ pages[j].weight # None
        /\ pages[j].path \in Range(unsortable)

C4_TotalOrder ==
    (pc \in {"sort", "done"} /\ sort_by # "None") =>
        \A a, b, c \in Range(can_be_sorted) :
            /\ Compare(a, b, sort_by) \in {"Less", "Equal", "Greater"}
            /\ Compare(a, b, sort_by) = "Equal" <=> a = b
            /\ Compare(a, b, sort_by) = "Less" <=> Compare(b, a, sort_by) = "Greater"
            /\ (Compare(a, b, sort_by) = "Less" /\ Compare(b, c, sort_by) = "Less")
                   => Compare(a, c, sort_by) = "Less"

\* C5: two records of the sorted output whose criterion keys compare equal are
\* in ascending order of their permalinks.
C5_TieBreak ==
    Returned =>
        \A i, j \in DOMAIN sorted :
            (i < j /\ KeyOrd(PageOf(sorted[i]), PageOf(sorted[j]), sort_by) = "Equal")
                => StrCmp(PageOf(sorted[i]).permalink, PageOf(sorted[j]).permalink) = "Less"

\* Three pages whose most recent date is 2018, listed against permalink order.
C5_Witness ==
    /\ pc = "done"
    /\ sort_by = "UpdateDate"
    /\ Paths(pages) = <<<<97>>, <<100>>, <<101>>>>
    /\ sorted = <<<<101>>, <<97>>, <<100>>>>

\* C6: every ordering of the input batch gives the sorted sequence that this
\* call returned.
C6_InputOrderIndependent ==
    Returned =>
        \A q \in Permutations(pages) :
            Paths(SortSeq(Orderable(q, sort_by), sort_by)) = sorted

\* C7: by date, every record of the sorted output is dated no earlier than the
\* records after it.
C7_DateDescending ==
    (pc = "done" /\ sort_by = "Date") =>
        \A i, j \in DOMAIN sorted :
            i < j => PageOf(sorted[i]).datetime[1] >= PageOf(sorted[j]).datetime[1]

\* Pages dated 2018, 2017, 2019 come out as 2019, 2018, 2017.
C7_Witness ==
    /\ pc = "done"
    /\ sort_by = "Date"
    /\ [i \in DOMAIN pages |-> pages[i].datetime] = <<Some(2018), Some(2017), Some(2019)>>
    /\ [i \in DOMAIN sorted |-> PageOf(sorted[i]).datetime] = <<Some(2019), Some(2018), Some(2017)>>

\* The most recent of the two dates of a page, an absent date counting below
\* every date.
MostRecent(page) ==
    IF page.datetime = None THEN page.updated_datetime[1]
    ELSE IF page.updated_datetime = None THEN page.datetime[1]
    ELSE IF page.datetime[1] >= page.updated_datetime[1] THEN page.datetime[1]
    ELSE page.updated_datetime[1]

\* C8: by most recent date, every record of the sorted output has a most recent
\* date no earlier than that of the records after it.
C8_MostRecentDescending ==
    (pc = "done" /\ sort_by = "UpdateDate") =>
        \A i, j \in DOMAIN sorted :
            i < j => MostRecent(PageOf(sorted[i])) >= MostRecent(PageOf(sorted[j]))

\* 2018, 2017 updated 2022, 2019 and a page with only an update date of 2018
\* come out as 2017 (updated 2022), 2019, 2018, update-only 2018.
C8_Witness ==
    /\ pc = "done"
    /\ sort_by = "UpdateDate"
    /\ Paths(pages) = <<<<97>>, <<98>>, <<99>>, <<100>>>>
    /\ sorted = <<<<98>>, <<99>>, <<97>>, <<100>>>>

\* C9: by weight, every record of the sorted output weighs no more than the
\* records after it.
C9_WeightAscending ==
    (pc = "done" /\ sort_by = "Weight") =>
        \A i, j \in DOMAIN sorted :
            i < j => PageOf(sorted[i]).weight[1] <= PageOf(sorted[j]).weight[1]

\* Weights 2, 3, 1 come out as 1, 2, 3.
C9_Witness ==
    /\ pc = "done"
    /\ sort_by = "Weight"
    /\ [i \in DOMAIN pages |-> pages[i].weight] = <<Some(2), Some(3), Some(1)>>
    /\ [i \in DOMAIN sorted |-> PageOf(sorted[i]).weight] = <<Some(1), Some(2), Some(3)>>

\* Length of the digit run that ends a title.
RECURSIVE TrailingDigits(_)
TrailingDigits(t) ==
    IF t # <<>> /\ t[Len(t)] >= 48 /\ t[Len(t)] <= 57
    THEN 1 + TrailingDigits(SubSeq(t, 1, Len(t) - 1))
    ELSE 0

TitlePrefix(t) == SubSeq(t, 1, Len(t) - TrailingDigits(t))

RECURSIVE Decimal(_)
Decimal(d) == IF d = <<>> THEN 0 ELSE Decimal(SubSeq(d, 1, Len(d) - 1)) * 10 + (d[Len(d)] - 48)

TrailingNumber(t) == Decimal(SubSeq(t, Len(t) - TrailingDigits(t) + 1, Len(t)))

\* C10: by natural title order, two titles of the sorted output that share the
\* prefix before their trailing digit run are in the order of the numbers the
\* runs denote.
C10_NaturalDigitRuns ==
    (pc = "done" /\ sort_by = "Title") =>
        \A i, j \in DOMAIN sorted :
            LET s == PageOf(sorted[i]).title[1]
                t == PageOf(sorted[j]).title[1]
            IN  (i < j /\ TrailingDigits(s) > 0 /\ TrailingDigits(t) > 0
                       /\ TitlePrefix(s) = TitlePrefix(t))
                    => TrailingNumber(s) <= TrailingNumber(t)

\* track_3, track_13, track_1 come out as track_1, track_3, track_13.
C10_Witness ==
    /\ pc = "done"
    /\ sort_by = "Title"
    /\ Paths(pages) = <<<<97>>, <<98>>, <<99>>>>
    /\ sorted = <<<<99>>, <<97>>, <<98>>>>

\* s is at or before t in code-unit lexicographic order: at the first place
\* where they differ s has the smaller unit, or s is a prefix of t.
BytesLeq(s, t) ==
    \E k \in 0..Len(s) :
        /\ k <= Len(t)
        /\ \A i \in 1..k : s[i] = t[i]
        /\ \/ k = Len(s)
           \/ k < Len(t) /\ s[k + 1] < t[k + 1]

\* C11: by raw title order, every title of the sorted output is at or before
\* the titles after it in code-unit lexicographic order; in particular titles
\* are grouped by their first unit (upper-case ASCII, then lower-case ASCII,
\* then non-ASCII) and track_13 precedes track_3.
C11_TitleBytes ==
    (pc = "done" /\ sort_by = "TitleBytes") =>
        \A i, j \in DOMAIN sorted :
            LET s == PageOf(sorted[i]).title[1]
                t == PageOf(sorted[j]).title[1]
            IN  i < j => (BytesLeq(s, t) /\ s[1] <= t[1])

\* track_3, track_13, BART and a title starting with a non-ASCII letter come
\* out as BART, track_13, track_3, non-ASCII.
C11_Witness ==
    /\ pc = "done"
    /\ sort_by = "TitleBytes"
    /\ sorted = <<<<100>>, <<98>>, <<97>>, <<102>>>>

C15_EmptyInput ==
    pages = <<>> =>
        /\ pc \in {"partition", "sort", "done"}
        /\ pc = "done" \/ ENABLED Next
        /\ sorted = <<>>
        /\ unsortable = <<>>

C15_Witness ==
    /\ pages = <<>>
    /\ pc = "done"
    /\ sort_by = "Title"

\* C16: under a criterion other than NoOrder the sort never unwinds, and every
\* comparison between records the partition step accepted finds the attributes
\* it unwraps.
C16_NoAbsentKey ==
    sort_by # "None" =>
        /\ pc # "panic"
        /\ pc \in {"sort", "done"} =>
               \A a, b \in Range(can_be_sorted) : KeyOrd(a, b, sort_by) # "Panic"

\* By most recent date, a page with only an update date was accepted and
\* compared with others.
C16_Witness ==
    /\ pc = "done"
    /\ sort_by = "UpdateDate"
    /\ Len(sorted) >= 3
    /\ \E i \in DOMAIN sorted :
           PageOf(sorted[i]).datetime = None /\ PageOf(sorted[i]).updated_datetime # None

\* The paths of PathPages are ASCII, hence displayable as they are, or hold the
\* byte 0xFF, which no UTF-8 string contains.
Displayable(path) == \A i \in DOMAIN path : path[i] < 128

RawCmp(s, t) ==
    IF s = t THEN "Equal" ELSE IF BytesLeq(s, t) THEN "Less" ELSE "Greater"

\* What the claim expects of one comparison under Path.
PathPairOrder(a, b) ==
    LET key == IF Displayable(a.path) /\ Displayable(b.path)
               THEN natural_lexical_cmp(a.path, b.path)
               ELSE RawCmp(a.path, b.path)
    IN  IF key = "Equal" THEN RawCmp(a.permalink, b.permalink) ELSE key

\* C17: under Path, each pair of accepted pages is compared naturally when both
\* paths are displayable and by their raw bytes otherwise, and a pair that
\* compares Equal is decided by the permalinks.
C17_PathPairwise ==
    (sort_by = "Path" /\ pc \in {"sort", "done"}) =>
        \A a, b \in Range(can_be_sorted) :
            Compare(a, b, sort_by) = PathPairOrder(a, b)

\* The sort ran over "10", "2" and the path that is not displayable.
C17_Witness ==
    /\ pc = "done"
    /\ sort_by = "Path"
    /\ {<<49, 48>>, <<50>>, <<49, 255>>} \subseteq Range(sorted)

\* C18 as stated: with the criterion None the call never returns normally.
C18_NeverReturns == sort_by = "None" => pc # "done"

\* C18, amended: with the criterion None and a batch that is not empty, the call
\* never gets past the partition step, goes on until the closure reaches
\* unreachable!(), and yields no output.
C18_NoneUnreachable ==
    (sort_by = "None" /\ pages # <<>>) =>
        /\ pc \in {"partition", "unreachable"}
        /\ pc = "unreachable" \/ ENABLED Next
        /\ sorted = <<>> /\ unsortable = <<>>
        /\ \A w \in DOMAIN acc : acc[w] = [yes |-> <<>>, no |-> <<>>]

C18_Witness ==
    /\ sort_by = "None"
    /\ Len(pages) >= 2
    /\ pc = "unreachable"

\* What a call running alone returns as its sorted sequence.
SortedAlone(batch, sb) == Paths(SortSeq(Orderable(batch, sb), sb))

\* The batch without the records that lack the criterion's attribute.
WithoutUnorderable(batch, sb) ==
    SelectSeq(batch, LAMBDA page : NeededAttributePresent(page, sb))

InsertAt(batch, k, page) ==
    SubSeq(batch, 1, k) \o <<page>> \o SubSeq(batch, k + 1, Len(batch))

\* C19: the sorted sequence a call returns is the one returned for the batch
\* with its unorderable records removed, and the one returned for the batch
\* with one more unorderable record put in at any position.
C19_UnorderableIgnored ==
    Returned =>
        /\ sorted = SortedAlone(WithoutUnorderable(pages, sort_by), sort_by)
        /\ \A u \in Universe(sort_by) \ Range(pages) :
               ~NeededAttributePresent(u, sort_by) =>
                   \A k \in 0..Len(pages) :
                       SortedAlone(InsertAt(pages, k, u), sort_by) = sorted

\* Two workers partitioned a batch in which an unorderable record stands
\* between orderable ones.
C19_Witness ==
    /\ Returned
    /\ nworkers >= 2
    /\ \E i, j, k \in DOMAIN pages :
           /\ i < j /\ j < k
           /\ NeededAttributePresent(pages[i], sort_by)
           /\ ~NeededAttributePresent(pages[j], sort_by)
           /\ NeededAttributePresent(pages[k], sort_by)
           /\ sorted[1] = pages[k].path

\* How often an identifier occurs in a sequence of identifiers.
Occurrences(seq, x) == Cardinality({i \in DOMAIN seq : seq[i] = x})

\* Two orderable records of the batch with equal key and equal permalink.
Collision ==
    \E i, j \in DOMAIN pages :
        /\ i # j
        /\ NeededAttributePresent(pages[i], sort_by)
        /\ NeededAttributePresent(pages[j], sort_by)
        /\ pages[i].permalink = pages[j].permalink
        /\ KeyOrd(pages[i], pages[j], sort_by) = "Equal"

\* C13: on a batch in which two orderable records have equal key and equal
\* permalink, the call comes to return, and what it returns as sorted holds
\* every orderable record of the batch exactly once and nothing else.
C13_TerminatesWithPermutation ==
    <>[](/\ Collision
         /\ pc = "done"
         /\ \A i \in DOMAIN pages :
                Occurrences(sorted, pages[i].path)
                    = IF NeededAttributePresent(pages[i], sort_by) THEN 1 ELSE 0
         /\ Range(sorted) \subseteq Range(Paths(pages)))

\* The call returned a sorted sequence with two colliding records, sorted by
\* two workers.
C13_Witness ==
    /\ pc = "done"
    /\ nworkers >= 2
    /\ Len(sorted) >= 3
    /\ \E i, j \in DOMAIN sorted :
           /\ i # j
           /\ Compare(PageOf(sorted[i]), PageOf(sorted[j]), sort_by) = "Equal"

\* What a call running alone returns as its unsortable sequence.
UnsortableAlone(batch, sb) ==
    Paths(SelectSeq(batch, LAMBDA page : ~NeededAttributePresent(page, sb)))

\* The call whose locals are c has not returned, or has returned what it
\* returns when it runs alone.
ResultAsAlone(c) ==
    c.pc = "done" =>
        /\ c.sorted = SortedAlone(c.pages, c.sort_by)
        /\ c.unsortable = UnsortableAlone(c.pages, c.sort_by)

\* C14: while two calls run at the same time on batches that may share pages,
\* no step changes the batch or the criterion of either call, and each call
\* that has returned has returned what it returns when run alone.
C14_CallsIndependent ==
    /\ [][\/ /\ pages' = pages /\ sort_by' = sort_by
             /\ other'.pages = other.pages /\ other'.sort_by = other.sort_by
          \/ /\ pages' = other.pages /\ sort_by' = other.sort_by
             /\ other'.pages = pages /\ other'.sort_by = sort_by]_vars
    /\ [](ResultAsAlone(Context) /\ ResultAsAlone(other))

\* One call has returned while the other, on a batch sharing a page with the
\* first, is in the middle of its sort.
C14_Witness ==
    /\ pc = "done"
    /\ Len(sorted) >= 2
    /\ other.pc = "sort"
    /\ other.busy # {}
    /\ other.sort_by # sort_by
    /\ Range(other.pages) \cap Range(pages) # {}

====
